---- MODULE Spec2Model ----
(***************************************************************************)
(* Adaptive frequency selection of freqselect.py: get_new_freq (the        *)
(* leave-one-out error estimate and the refinement rule) and the loop of   *)
(* design_freq_range that merges, scores, refines, reconstructs and        *)
(* transforms until no new frequency is proposed.                          *)
(*                                                                         *)
(* Numbers.  A frequency is a point of a logarithmic grid with PerHalf     *)
(* points per half decade; the integer f stands for 10^(f/(2*PerHalf)) Hz. *)
(* A log10 value is kept at twice that resolution (the integer l stands    *)
(* for l/(4*PerHalf)), so that half of a difference of two log10 values is *)
(* exact and 10**l rounds to the nearest lower representable frequency.    *)
(* A field value is a record [re, im] of small integers.  A relative error *)
(* is the pair [num, maxsq] standing for num/sqrt(maxsq); 0/0 is NaN.      *)
(***************************************************************************)
EXTENDS Integers, Sequences, FiniteSets, TLC

\* Bounds of the model: the resolution of the frequency grid, the number of
\* loop iterations followed, the length of an explicit seed array.
Depth == 1
MaxIter == 3
MaxSeed == 3

PerHalf == 2^Depth
PerDecade == 2 * PerHalf

\* ---------------------------------------------------------------- numbers

Abs(x) == IF x < 0 THEN -x ELSE x

Max(S) == CHOOSE x \in S : \A y \in S : y <= x

Range(s) == {s[i] : i \in 1..Len(s)}

\* np.log10 of a frequency, in log units.
Log10(f) == 2 * f

\* 10**l of a log10 value, rounded to the frequency grid.
Pow10(l) == l \div 2

\* The step 0.5 of lines 611 and 614, in log units.
HalfDecade == 2 * PerHalf

\* The anchor frequencies 1e-100, 1e4 and 1e100 Hz.
F1em100 == (-100) * PerDecade
F1e4 == 4 * PerDecade
F1e100 == 100 * PerDecade

\* rtol, an input of the run: 1/2.
Rtol == [num |-> 1, den |-> 2]

Zero == [re |-> 0, im |-> 0]

\* Values the forward model returns: 0, 1j and 2+0j.
Fields == {Zero, [re |-> 0, im |-> 1], [re |-> 2, im |-> 0]}

AbsSq(z) == z.re * z.re + z.im * z.im

NoValue == [kind |-> "none"]

\* ---------------------------------------------------------------- numpy

\* The elements of a finite set of integers in ascending order.
RECURSIVE SortedSeq(_)
SortedSeq(S) ==
    IF S = {} THEN <<>>
    ELSE LET m == CHOOSE x \in S : \A y \in S : x <= y
         IN <<m>> \o SortedSeq(S \ {m})

\* np.unique(s, return_index=True)[1]: for each distinct value, in ascending
\* order of value, the index of its first occurrence in s.
UniqueIndex(s) ==
    LET u == SortedSeq(Range(s))
    IN [j \in 1..Len(u) |->
            CHOOSE i \in 1..Len(s) :
                s[i] = u[j] /\ \A k \in 1..(i - 1) : s[k] # u[j]]

\* np.unique(s, return_inverse=True)[1]: for each element of s, the index of
\* its value in the sorted array of distinct values.
UniqueInverse(s) ==
    LET u == SortedSeq(Range(s))
    IN [i \in 1..Len(s) |-> CHOOSE j \in 1..Len(u) : u[j] = s[i]]

\* s[ai]: fancy indexing of s by an index array.
Take(s, ai) == [j \in 1..Len(ai) |-> s[ai[j]]]

\* s[np.arange(s.size) != i]
Without(s, i) == [j \in 1..(Len(s) - 1) |-> IF j < i THEN s[j] ELSE s[j + 1]]

\* np.diff
Diff(s) == [j \in 1..(Len(s) - 1) |-> s[j + 1] - s[j]]

Imag(s) == [j \in 1..Len(s) |-> s[j].im]

\* np.logspace(start, stop, num) on the frequency grid; start and stop are
\* log10 values.
Logspace(start, stop, num) ==
    [j \in 1..num |->
        IF num = 1 THEN Pow10(start)
        ELSE Pow10(start + ((j - 1) * (stop - start)) \div (num - 1))]

\* si.pchip_interpolate(x, y, xi) for one xi inside the control points: the
\* interpolant passes through its control points and is monotone between two
\* neighbours, so its value lies between their values.  The set of values it
\* may take.
PchipValues(x, y, xi) ==
    LET j == CHOOSE k \in 1..(Len(x) - 1) : x[k] <= xi /\ xi <= x[k + 1]
    IN IF xi = x[j] THEN {y[j]}
       ELSE IF xi = x[j + 1] THEN {y[j + 1]}
       ELSE IF y[j] <= y[j + 1] THEN y[j]..y[j + 1]
       ELSE y[j + 1]..y[j]

\* ---------------------------------------------------------------- forward

\* The spectra of the forward model: one value below SplitFreq, one from it on.
SplitFreq == F1e4 - PerHalf

Models == [lo : Fields, hi : Fields]

\* empymod.dipole(freqtime=f, **model) for one frequency.
Dipole(m, f) == IF f < SplitFreq THEN m.lo ELSE m.hi

\* ---------------------------------------------------------------- get_new_freq

\* The control points of the leave-one-out interpolation of sample i.
LooFreq(freq, i) ==
    IF Max(Range(freq)) < F1e4
    THEN <<F1em100>> \o Without(freq, i) \o <<F1e4, F1e100>>
    ELSE <<F1em100>> \o Without(freq, i) \o <<F1e100>>

LooField(freq, field, i) ==
    IF Max(Range(freq)) < F1e4
    THEN <<0>> \o Imag(Without(field, i)) \o <<0, 0>>
    ELSE <<0>> \o Imag(Without(field, i)) \o <<0>>

\* The leave-one-out estimates i_field.imag the interpolation may return.
LeaveOneOut(freq, field) ==
    LET vals == [i \in 1..Len(freq) |->
                    PchipValues(LooFreq(freq, i), LooField(freq, field, i),
                                freq[i])]
    IN {est \in [1..Len(freq) -> {z.im : z \in Fields}] :
            \A i \in 1..Len(freq) : est[i] \in vals[i]}

MaxImagSq(field) == Max({field[i].im * field[i].im : i \in 1..Len(field)})

\* max(np.abs(field)), squared.
MaxAbsSq(field) == Max({AbsSq(field[i]) : i \in 1..Len(field)})

\* error = np.abs((i_field.imag-field.imag)/max(np.abs(field)))
Error(i_field, field) ==
    [i \in 1..Len(field) |->
        [num |-> Abs(i_field[i] - field[i].im), maxsq |-> MaxAbsSq(field)]]

IsNaN(e) == e.num = 0 /\ e.maxsq = 0

GtOrEqual(e, rtol) ==
    /\ ~IsNaN(e)
    /\ (e.num * rtol.den) * (e.num * rtol.den) >= (rtol.num * rtol.num) * e.maxsq

\* e > rtol in floating point: false when e is NaN.
Gt(e, rtol) ==
    /\ ~IsNaN(e)
    /\ (e.num * rtol.den) * (e.num * rtol.den) > (rtol.num * rtol.num) * e.maxsq

\* ierr = np.arange(freq.size)[error > rtol]
Ierr(error, rtol) ==
    SortedSeq({i \in 1..Len(error) : Gt(error[i], rtol)})

NewLfreqSoleFirst(freq, error, ierr, rtol) ==
    LET lfreq == [j \in 1..Len(freq) |-> Log10(freq[j])]
        diff == Diff(lfreq)
        n == Len(freq)
    IN IF Gt(error[1], rtol) /\ Len(ierr) = 1 THEN lfreq[ierr[1]] - HalfDecade
       ELSE IF Gt(error[n], rtol) /\ Len(ierr) = 1 THEN lfreq[ierr[1]] + HalfDecade
       ELSE lfreq[ierr[1]] + diff[ierr[1]] \div 2

NewLfreqAnyLast(freq, error, ierr, rtol) ==
    LET lfreq == [j \in 1..Len(freq) |-> Log10(freq[j])]
        diff == Diff(lfreq)
        n == Len(freq)
    IN IF Gt(error[1], rtol) THEN lfreq[ierr[1]] - HalfDecade
       ELSE IF Gt(error[n], rtol) THEN lfreq[n] + HalfDecade
       ELSE lfreq[ierr[1]] + diff[ierr[1]] \div 2

NewLfreqFullGap(freq, error, ierr, rtol) ==
    LET lfreq == [j \in 1..Len(freq) |-> Log10(freq[j])]
        diff == Diff(lfreq)
        n == Len(freq)
    IN IF Gt(error[1], rtol) THEN lfreq[ierr[1]] - HalfDecade
       ELSE IF Gt(error[n], rtol) /\ Len(ierr) = 1 THEN lfreq[ierr[1]] + HalfDecade
       ELSE lfreq[ierr[1]] + diff[ierr[1]]

\* new_lfreq: the new frequency's log10, by the location of the failing
\* samples in the array.
NewLfreq(freq, error, ierr, rtol) ==
    LET lfreq == [j \in 1..Len(freq) |-> Log10(freq[j])]
        diff == Diff(lfreq)
        n == Len(freq)
    IN IF Gt(error[1], rtol) THEN lfreq[ierr[1]] - HalfDecade
       ELSE IF Gt(error[n], rtol) /\ Len(ierr) = 1 THEN lfreq[ierr[1]] + HalfDecade
       ELSE lfreq[ierr[1]] + diff[ierr[1]] \div 2

BranchWithoutLast(error, ierr, rtol) ==
    IF Gt(error[1], rtol) THEN "first" ELSE "midpoint"

\* Add new frequency depending on location in array: the branch taken.
Branch(error, ierr, rtol) ==
    IF Gt(error[1], rtol) THEN "first"
    ELSE IF Gt(error[Len(error)], rtol) /\ Len(ierr) = 1 THEN "last"
    ELSE "midpoint"

\* diff[ierr[0]] raises IndexError: diff has one element less than freq.
DiffIndexError(freq, error, ierr, rtol) ==
    /\ Len(ierr) > 0
    /\ Branch(error, ierr, rtol) = "midpoint"
    /\ ierr[1] \notin 1..(Len(freq) - 1)

\* i_field2: the complete interpolation, named by its control points and the
\* frequencies req_freq it is evaluated at.
CompleteInterpolation(freq, field, req_freq) ==
    IF Max(Range(freq)) < F1e4
    THEN [tmp_f2 |-> <<F1em100>> \o freq \o <<F1e4, F1e100>>,
          tmp_s2 |-> <<0>> \o Imag(field) \o <<0, 0>>,
          at |-> req_freq]
    ELSE [tmp_f2 |-> <<F1em100>> \o freq \o <<F1e100>>,
          tmp_s2 |-> <<0>> \o Imag(field) \o <<0>>,
          at |-> req_freq]

\* get_new_freq(freq, field, rtol, req_freq, True), given the leave-one-out
\* estimates the interpolation returned.
get_new_freq(freq, field, rtol, req_freq, i_field) ==
    LET error == Error(i_field, field)
        ierr == Ierr(error, rtol)
    IN IF DiffIndexError(freq, error, ierr, rtol)
       THEN [raised |-> "IndexError"]
       ELSE [raised |-> "none",
             new_freq |-> IF Len(ierr) > 0
                          THEN <<Pow10(NewLfreq(freq, error, ierr, rtol))>>
                          ELSE <<>>,
             i_field |-> i_field,
             error |-> error,
             ierr |-> ierr,
             i_field2 |-> CompleteInterpolation(freq, field, req_freq)]

\* ---------------------------------------------------------------- design_freq_range

VARIABLES freq_range, model, required, req_freq, ri, p, new_freq, freq, fEM,
          out, tEM, iter, pc, raised, ret

vars == <<freq_range, model, required, req_freq, ri, p, new_freq, freq, fEM,
          out, tEM, iter, pc, raised, ret>>

\* The k-th frequency a required grid is made of: 10^1.5, 10^2, ... 10^3.5 Hz.
ReqPoint(k) == F1e4 - (6 - k) * PerHalf

\* The required frequencies empymod.utils.check_time returns: a sorted grid, a
\* descending one, and one that is unsorted and repeats a frequency.
ReqGrids ==
    {[j \in 1..5 |-> ReqPoint(j)],
     [j \in 1..5 |-> ReqPoint(6 - j)],
     <<ReqPoint(2), ReqPoint(1), ReqPoint(1), ReqPoint(3), ReqPoint(4), ReqPoint(5)>>}

\* The numbers of peaks asked for when freq_range is an integer.
PeakCounts == 0..3

\* Frequencies an explicit seed array is made of: 10^3.5 and 1e4 Hz.
SeedFreqs == {F1e4 - PerHalf, F1e4}

SeedArrays == UNION {[1..n -> SeedFreqs] : n \in 0..MaxSeed}

\* (log10-min, log10-max, count) triples, in log units.
SeedTuples ==
    LET d == 2 * HalfDecade
    IN {<<3 * d, 4 * d, 2>>, <<3 * d, 4 * d, 3>>, <<4 * d, 3 * d, 2>>,
        <<3 * d, 3 * d, 1>>}

FreqRanges ==
    {[kind |-> "ndarray", arr |-> a] : a \in SeedArrays}
    \cup {[kind |-> "tuple", arr |-> t] : t \in SeedTuples}
    \cup {[kind |-> "int", n |-> n] : n \in PeakCounts}

Init ==
    /\ freq_range \in FreqRanges
    /\ model \in Models
    /\ required \in ReqGrids
    /\ req_freq = SortedSeq(Range(required))
    /\ ri = UniqueInverse(required)
    /\ p = NoValue
    /\ new_freq = <<>>
    /\ freq = <<>>
    /\ fEM = <<>>
    /\ out = NoValue
    /\ tEM = NoValue
    /\ iter = 0
    /\ pc = "INITIALIZING"
    /\ raised = "none"
    /\ ret = NoValue

\* The initial frequencies of a tuple or an array.
InitialFrequencies(fr) ==
    IF fr.kind = "tuple" THEN Logspace(fr.arr[1], fr.arr[2], fr.arr[3])
    ELSE fr.arr

\* find_peaks(np.abs(sfEM.imag)) of the fine model's spectrum on req_freq: the
\* index arrays it may return.  A peak is an interior sample and no two peaks
\* are neighbours.
FindPeaks(rf) ==
    {SortedSeq(P) : P \in {Q \in SUBSET (2..(Len(rf) - 1)) :
                                \A i \in Q : (i + 1) \notin Q}}

\* s[:n] for n >= 0
FirstN(s, n) == SubSeq(s, 1, IF n < Len(s) THEN n ELSE Len(s))

\* Add midpoints, plus one before: the seed made of the selected peaks.
PeakSeed(peak_freq) ==
    LET lfreq == [j \in 1..Len(peak_freq) |-> Log10(peak_freq[j])]
        diff == Diff(lfreq)
        diff2 == Diff(FirstN(lfreq, 2))
        all == lfreq
               \o [j \in 1..(Len(lfreq) - 1) |-> lfreq[j] + diff[j]]
               \o [j \in 1..Len(diff2) |-> lfreq[1] - diff2[j]]
        u == SortedSeq(Range(all))
    IN [j \in 1..Len(u) |-> Pow10(u[j])]

\* Define initial frequencies.
DefineInitialFrequencies ==
    /\ pc = "INITIALIZING"
    /\ IF freq_range.kind # "int"
       THEN /\ new_freq' = InitialFrequencies(freq_range)
            /\ pc' = "ITERATING"
            /\ UNCHANGED <<raised, p>>
       ELSE \E peaks \in FindPeaks(req_freq) :
              LET peak_freq == Take(req_freq, FirstN(peaks, freq_range.n))
              IN /\ p' = peaks
                 /\ IF Len(peak_freq) = 0
                    THEN /\ pc' = "FAILED"
                         /\ raised' = "IndexError"
                         /\ new_freq' = peak_freq
                    ELSE /\ new_freq' = PeakSeed(peak_freq)
                         /\ pc' = "ITERATING"
                         /\ UNCHANGED raised
    /\ UNCHANGED <<freq_range, model, required, req_freq, ri, freq, fEM, out,
                   tEM, iter, ret>>

MergeIndexNewOnly(f, nf) ==
    LET ai == UniqueIndex(nf) IN [j \in 1..Len(ai) |-> Len(f) + ai[j]]

MergeIndexNoUnique(f, nf) == [j \in 1..(Len(f) + Len(nf)) |-> j]

\* freq, ai = np.unique(np.r_[freq, new_freq], return_index=True)
MergeIndex(f, nf) == UniqueIndex(f \o nf)

MergeFieldNewFirst(s, ns, ai) == Take(ns \o s, ai)

\* fEM = np.r_[fEM, new_fEM][ai]
MergeField(s, ns, ai) == Take(s \o ns, ai)

\* The 3-point ramp from the last frequency; the step is the difference of the
\* last two log10 frequencies.
FreqRamp(f) ==
    LET lfreq == [j \in 1..Len(f) |-> Log10(f[j])]
        n == Len(f)
    IN [k \in 1..3 |-> Pow10(lfreq[n] + k * (lfreq[n] - lfreq[n - 1]))]

ReconstructStale(f, s) ==
    LET n == Len(f) - 1
    IN [itmp_f |-> <<F1em100>> \o SubSeq(f, 1, n) \o <<F1e100>>,
        itmp_s |-> <<0>> \o [j \in 1..n |-> 4 * s[j].im] \o <<0>>,
        rtmp_f |-> SubSeq(f, 1, n) \o <<F1e100>>,
        rtmp_s |-> [j \in 1..n |-> 4 * s[j].re] \o <<0>>]

\* The control points of the two interpolations to the required frequencies;
\* field values in quarters, so that the ramp 0.75, 0.5, 0.25 is exact.
Reconstruct(f, s) ==
    LET n == Len(f)
        ramp == FreqRamp(f)
    IN [itmp_f |-> <<F1em100>> \o f \o ramp \o <<F1e100>>,
        itmp_s |-> <<0>> \o [j \in 1..n |-> 4 * s[j].im]
                       \o [k \in 1..3 |-> (4 - k) * s[n].im] \o <<0>>,
        rtmp_f |-> f \o ramp \o <<F1e100>>,
        rtmp_s |-> [j \in 1..n |-> 4 * s[j].re]
                       \o [k \in 1..3 |-> (4 - k) * s[n].re] \o <<0>>]

\* empymod.model.tem of the reconstructed spectrum: the time-domain signal,
\* named by the control points the spectrum was reconstructed from, the
\* frequencies at it was interpolated on, and the frequencies rf it was handed
\* over with (freq=req_freq).
Tem(sfEM, at, rf) == [kind |-> "tEM", of |-> sfEM, at |-> at, freq |-> rf]

\* One pass of the loop body.
LoopIteration ==
    /\ pc = "ITERATING"
    /\ Len(new_freq) > 0
    /\ iter < MaxIter
    /\ LET new_fEM == [j \in 1..Len(new_freq) |-> Dipole(model, new_freq[j])]
           ai == MergeIndex(freq, new_freq)
           f2 == Take(freq \o new_freq, ai)
           s2 == MergeField(fEM, new_fEM, ai)
       IN \E i_field \in LeaveOneOut(f2, s2) :
            LET o == get_new_freq(f2, s2, Rtol, req_freq, i_field)
            IN /\ freq' = f2
               /\ fEM' = s2
               /\ iter' = iter + 1
               /\ IF o.raised # "none"
                  THEN /\ pc' = "FAILED"
                       /\ raised' = o.raised
                       /\ UNCHANGED <<out, new_freq, tEM, req_freq>>
                  ELSE /\ out' = o
                       /\ new_freq' = o.new_freq
                       /\ IF Len(f2) < 2
                          THEN /\ pc' = "FAILED"
                               /\ raised' = "ValueError"
                               /\ UNCHANGED <<tEM, req_freq>>
                          ELSE /\ req_freq' = Take(req_freq, ri)
                               /\ tEM' = Tem(Reconstruct(f2, s2), req_freq, req_freq')
                               /\ UNCHANGED <<pc, raised>>
    /\ UNCHANGED <<freq_range, model, required, ri, p, ret>>

\* return tEM, freq, fEM
ReturnValue(t, f, s) == [tEM |-> t, freq |-> f, fEM |-> s]

\* The loop condition is false: the function returns.
Return ==
    /\ pc = "ITERATING"
    /\ Len(new_freq) = 0
    /\ IF tEM = NoValue
       THEN /\ pc' = "FAILED"
            /\ raised' = "UnboundLocalError"
            /\ UNCHANGED ret
       ELSE /\ pc' = "CONVERGED"
            /\ ret' = ReturnValue(tEM, freq, fEM)
            /\ UNCHANGED raised
    /\ UNCHANGED <<freq_range, model, required, req_freq, ri, p, new_freq,
                   freq, fEM, out, tEM, iter>>

Next == DefineInitialFrequencies \/ LoopIteration \/ Return

Spec == Init /\ [][Next]_vars

\* ---------------------------------------------------------------- properties

\* get_new_freq has scored the current sample set: out.error[i] is the error
\* of freq[i] and out.new_freq the proposal.
Scored == out # NoValue

N == Len(freq)

\* error > rtol and error <= rtol as real numbers; neither holds of NaN.
Exceeds(e) ==
    e.maxsq > 0 /\ e.num * e.num * Rtol.den * Rtol.den > Rtol.num * Rtol.num * e.maxsq

Within(e) ==
    e.maxsq > 0 /\ e.num * e.num * Rtol.den * Rtol.den <= Rtol.num * Rtol.num * e.maxsq

Failing == {i \in 1..N : Exceeds(out.error[i])}

Downward == <<Pow10(Log10(freq[1]) - HalfDecade)>>

Upward == <<Pow10(Log10(freq[N]) + HalfDecade)>>

Midpoint(k) == <<Pow10((Log10(freq[k]) + Log10(freq[k + 1])) \div 2)>>

\* C1: whenever the error of the lowest-frequency sample exceeds rtol, the
\* proposal is exactly 10^(log10(f_min) - 0.5), whatever other samples fail.
C1_BoundaryPriority ==
    (Scored /\ Exceeds(out.error[1])) => out.new_freq = Downward

\* The first, an interior and the last sample all fail, and the proposal has
\* been made.
C1_Witness ==
    /\ Scored
    /\ N >= 3
    /\ {1, 2, N} \subseteq Failing

\* C2 as stated: whenever the highest-frequency sample is the only failing
\* sample the proposal is 10^(log10(f_max) + 0.5), and when it fails together
\* with another sample the upward extension is not proposed.
C2_SoleLastExtension ==
    /\ (Scored /\ Failing = {N}) => out.new_freq = Upward
    /\ (Scored /\ N \in Failing /\ Cardinality(Failing) >= 2)
            => out.new_freq # Upward

\* C2 amended: the same for a sample set of at least two samples, where the
\* highest-frequency sample is not also the lowest-frequency one.
C2_SoleLastExtensionTwoOrMore ==
    /\ (Scored /\ N >= 2 /\ Failing = {N}) => out.new_freq = Upward
    /\ (Scored /\ N \in Failing /\ Cardinality(Failing) >= 2)
            => out.new_freq # Upward

\* Only the last of at least three samples fails.
C2_Witness ==
    /\ Scored
    /\ N >= 3
    /\ Failing = {N}
    /\ new_freq = Upward

\* C3: when some sample fails, the lowest-frequency sample does not, and it is
\* not the case that only the last fails, the proposal is the log10 midpoint
\* of the lowest failing sample and its next neighbour.
C3_InteriorBisection ==
    (Scored /\ Failing # {} /\ 1 \notin Failing /\ Failing # {N})
        => out.new_freq = Midpoint(CHOOSE k \in Failing : \A j \in Failing : k <= j)

\* An interior sample and the last sample fail, the first does not.
C3_Witness ==
    /\ Scored
    /\ N >= 3
    /\ 1 \notin Failing
    /\ {N - 1, N} \subseteq Failing
    /\ freq[N - 1] < new_freq[1]
    /\ new_freq[1] < freq[N]

C5_MonotonicGrowth ==
    [][Len(freq') >= Len(freq) /\ Len(freq') <= Len(freq) + 1]_vars

\* C5 amended: the size of freq never decreases, and every iteration but the
\* first, which merges the seed into the empty set, adds at most one frequency.
C5_MonotonicGrowthAfterSeed ==
    [][/\ Len(freq') >= Len(freq)
       /\ Len(freq) > 0 => Len(freq') <= Len(freq) + 1]_vars

\* A third iteration has grown a seed of two frequencies to four.
C5_Witness ==
    /\ iter = 3
    /\ freq_range.kind # "int"
    /\ Cardinality(Range(InitialFrequencies(freq_range))) = 2
    /\ N = 4

\* C6: after every merge the frequencies of the sample set are strictly
\* increasing, hence without duplicates.
C6_StrictlyIncreasing ==
    \A i \in 1..N : \A j \in 1..N : i < j => freq[i] < freq[j]

\* An explicit seed that is unsorted and repeats a frequency has been merged.
C6_Witness ==
    /\ freq_range.kind = "ndarray"
    /\ \E i \in 1..Len(freq_range.arr) : \E j \in 1..Len(freq_range.arr) :
          i < j /\ freq_range.arr[i] > freq_range.arr[j]
    /\ \E i \in 1..Len(freq_range.arr) : \E j \in 1..Len(freq_range.arr) :
          i < j /\ freq_range.arr[i] = freq_range.arr[j]
    /\ iter >= 1
    /\ N = 2

\* C7: a run whose sample set of two or more frequencies has only zero field
\* values ends FAILED with DegenerateFieldError; no error vector and no
\* frequency set is returned.
C7_DegenerateFieldFails ==
    (pc \in {"FAILED", "CONVERGED"} /\ N >= 2 /\ MaxAbsSq(fEM) = 0)
        => /\ pc = "FAILED"
           /\ raised = "DegenerateFieldError"
           /\ out = NoValue
           /\ ret = NoValue

\* C8: the loop makes no further iteration once the proposal is empty and
\* returns only then; the returned frequencies and field values are the sample
\* set after the last merge, and the returned signal was transformed from the
\* interpolation through exactly those samples.
C8_OutputOnConvergence ==
    /\ [](pc = "CONVERGED" =>
            /\ out.new_freq = <<>>
            /\ ret.freq = freq
            /\ ret.fEM = fEM
            /\ ret.tEM = tEM
            /\ SubSeq(ret.tEM.of.itmp_f, 2, N + 1) = ret.freq
            /\ SubSeq(ret.tEM.of.rtmp_f, 1, N) = ret.freq
            /\ SubSeq(ret.tEM.of.itmp_s, 2, N + 1) = [j \in 1..N |-> 4 * ret.fEM[j].im]
            /\ SubSeq(ret.tEM.of.rtmp_s, 1, N) = [j \in 1..N |-> 4 * ret.fEM[j].re])
    /\ [][(Scored /\ out.new_freq = <<>> /\ pc = "ITERATING")
            => (pc' = "CONVERGED" /\ freq' = freq /\ iter' = iter)]_vars
    /\ [][(pc = "ITERATING" /\ pc' = "CONVERGED")
            => (Scored /\ out.new_freq = <<>>)]_vars

\* The run has returned after three iterations.
C8_Witness ==
    /\ pc = "CONVERGED"
    /\ iter = 3
    /\ ret.freq = freq
    /\ N = 4

\* The configurable maximum number of iterations of C9.
IterationCap == MaxIter - 1

\* C9: a run that has made IterationCap iterations and still has a frequency
\* to evaluate is FAILED with NonConvergenceError.
C9_NoIndefiniteLooping ==
    (iter >= IterationCap /\ Scored /\ out.new_freq # <<>>)
        => (pc = "FAILED" /\ raised = "NonConvergenceError")

\* The number of distinct frequencies of a seed given as a tuple or an array
\* (0 for an integer, whose seed is known only after the peak detection).
SeedSize ==
    IF freq_range.kind = "int" THEN 0
    ELSE Cardinality(Range(InitialFrequencies(freq_range)))

\* C10: a run whose seed is a single frequency, which leaves fewer than 2
\* control points, ends FAILED with InsufficientDataError and returns nothing.
C10_InsufficientData ==
    (SeedSize = 1 /\ pc \in {"FAILED", "CONVERGED"})
        => (pc = "FAILED" /\ raised = "InsufficientDataError" /\ ret = NoValue)

\* The largest |Im| and the largest complex magnitude of the current samples,
\* squared.
LargestImagSq == Max({fEM[i].im * fEM[i].im : i \in 1..N})

LargestMagnitudeSq ==
    Max({fEM[i].re * fEM[i].re + fEM[i].im * fEM[i].im : i \in 1..N})

\* num/sqrt(scalesq) > rtol as real numbers.
QuotientExceeds(num, scalesq) ==
    scalesq > 0 /\ num * num * Rtol.den * Rtol.den > Rtol.num * Rtol.num * scalesq

\* C11 as stated: the error of sample i is |estimate.imag - actual.imag| over
\* the largest |actual.imag| of the samples (where that is not zero), and a
\* sample is in ierr exactly when that quotient exceeds rtol.
C11_NormalisedByLargestImag ==
    Scored => \A i \in 1..N :
        /\ out.error[i].num = Abs(out.i_field[i] - fEM[i].im)
        /\ LargestImagSq > 0 =>
              out.error[i].num * out.error[i].num * LargestImagSq
                = out.error[i].num * out.error[i].num * out.error[i].maxsq
        /\ (i \in Range(out.ierr)) <=> QuotientExceeds(out.error[i].num, LargestImagSq)

\* C11 amended: the divisor is the largest complex magnitude |actual| of the
\* samples, and a sample is in ierr exactly when that quotient exceeds rtol.
C11_NormalisedByLargestMagnitude ==
    Scored => \A i \in 1..N :
        /\ out.error[i].num = Abs(out.i_field[i] - fEM[i].im)
        /\ out.error[i].maxsq = LargestMagnitudeSq
        /\ (i \in Range(out.ierr))
              <=> QuotientExceeds(out.error[i].num, LargestMagnitudeSq)

\* A sample set with a non-zero real part in which a sample would fail by the
\* largest |Im| but is stable by the largest magnitude.
C11_Witness ==
    /\ Scored
    /\ \E i \in 1..N : fEM[i].re # 0
    /\ \E i \in 1..N :
          /\ QuotientExceeds(out.error[i].num, LargestImagSq)
          /\ ~QuotientExceeds(out.error[i].num, LargestMagnitudeSq)
          /\ i \notin Range(out.ierr)

\* The peaks the integer freq_range selected: req_freq[p[:freq_range]].
PeakSeeded == freq_range.kind = "int" /\ pc = "ITERATING" /\ iter = 0

SelectedPeaks == Take(req_freq, FirstN(p, freq_range.n))

LogMidpoint(a, b) == Pow10((Log10(a) + Log10(b)) \div 2)

\* C12: the seed of an integer freq_range is the selected peaks, the log10
\* midpoint of every two consecutive selected peaks, and (with two peaks or
\* more) one frequency left of the lowest peak, as far from it in log10 as the
\* second peak is; so with two peaks or more the seed holds a frequency
\* strictly between every two consecutive peaks.
C12_PeakSeedHasMidpoints ==
    PeakSeeded =>
        LET sel == SelectedPeaks
            k == Len(sel)
        IN /\ Range(new_freq)
                = Range(sel)
                  \cup {LogMidpoint(sel[j], sel[j + 1]) : j \in 1..(k - 1)}
                  \cup {Pow10(2 * Log10(sel[1]) - Log10(sel[j])) : j \in 2..(IF k < 2 THEN k ELSE 2)}
           /\ \A j \in 1..(k - 1) :
                 \E f \in Range(new_freq) : sel[j] < f /\ f < sel[j + 1]

\* C13: the required grid is never changed.  From one iteration to the next
\* the estimator's complete interpolation, the reconstruction and the transform
\* get the frequencies they got before, in the same order, and the transform
\* always gets the required grid as check_time returned it, whether or not
\* that grid is sorted and free of repeats.
C13_TargetGridReadOnly ==
    /\ [][(LoopIteration /\ iter >= 1 /\ tEM' # tEM)
            => /\ out'.i_field2.at = out.i_field2.at
               /\ tEM'.at = tEM.at
               /\ tEM'.freq = tEM.freq]_vars
    /\ [](tEM # NoValue => tEM.freq = required)

Proposed == Scored /\ Len(out.new_freq) > 0

\* C14: a frequency proposed for a strictly increasing sample set is not one
\* of its frequencies, so every iteration that proposes one is followed by an
\* iteration whose sample set is larger by exactly one: no iteration is run
\* again on an unchanged sample set.
C14_ProposalIsNew ==
    /\ [](Proposed => \A j \in 1..N : out.new_freq[1] # freq[j])
    /\ [][(LoopIteration /\ iter >= 1) => Len(freq') = Len(freq) + 1]_vars

\* C15: the midpoint branch is never taken with the last sample as the first
\* failing one, so diff[ierr[0]] is always within diff, whatever the number
\* of samples (one included) and the error vector: no scoring of a sample set
\* raises IndexError, and every proposal of the midpoint branch comes from a
\* failing index below the last.
C15_MidpointIndexInRange ==
    /\ (pc = "FAILED" /\ raised = "IndexError") => N = 0
    /\ (Proposed /\ Branch(out.error, out.ierr, Rtol) = "midpoint")
          => out.ierr[1] \in 1..(N - 1)

C15_Witness ==
    /\ Proposed
    /\ Branch(out.error, out.ierr, Rtol) = "midpoint"
    /\ N \in Range(out.ierr)
    /\ out.new_freq = Midpoint(out.ierr[1])

\* C16: after every merge the field array is aligned with the frequency
\* array: they have the same length and the field stored at a position is the
\* forward model's value for the frequency at that position, also where a
\* frequency came in more than once and the first value was kept.
C16_FieldAligned ==
    /\ Len(fEM) = Len(freq)
    /\ \A j \in 1..N : fEM[j] = Dipole(model, freq[j])

C16_Witness ==
    /\ iter >= 2
    /\ N >= 3
    /\ \E j \in 1..(N - 1) : fEM[j] # fEM[j + 1]
    /\ freq_range.kind = "ndarray"
    /\ Len(freq_range.arr) > Cardinality(Range(freq_range.arr))
    /\ Len(fEM) = N
    /\ \A j \in 1..N : fEM[j] = Dipole(model, freq[j])

====
